---- MODULE Spec2Model ----
(***************************************************************************)
(* The HTML front end of x0y14/browser: the tokenizer of                   *)
(* src/html/tokenizer.rs and the recursive-descent parser of               *)
(* src/html/parser.rs, as one state machine.  A run takes one input (a     *)
(* source text, or a token sequence handed to Parser::parse directly),     *)
(* tokenizes it character by character and parses the tokens step by       *)
(* step, with the call stack of the parser explicit.                       *)
(*                                                                         *)
(* Strings are sequences of characters, a character is a one-character     *)
(* string (a character outside ASCII is written by its code point, e.g.    *)
(* "U+00E9").  Option<T> is a sequence of length 0 (None) or 1 (Some(x)).  *)
(***************************************************************************)
EXTENDS Integers, Sequences, FiniteSets, TLC

VARIABLES
    input,    \* what the caller passes: a source text or a token sequence
    pc,       \* "tokenize" | "tokenized" | "parse" | "parsing" | "done"
    target,   \* Tokenizer.target
    pos,      \* Tokenizer.pos
    tz,       \* the tokenizer's position in tokenize() and its locals
    head,     \* the token list linked behind `head` in tokenize()
    toks,     \* the token list handed to Parser::parse
    token,    \* Parser.token: None, or Some(i) for the list from toks[i] on
    stack,    \* the parser's call stack, innermost frame last
    ret,      \* the value the last returned parser function returned
    outcome   \* what Parser::parse returned

vars == <<input, pc, target, pos, tz, head, toks, token, stack, ret, outcome>>

tokenizerVars == <<target, pos, tz, head>>
parserVars == <<toks, token, stack, ret, outcome>>

----------------------------------------------------------------------------
\* Bounds of the model.

\* longest enumerated source text, in characters
MaxChars == 3
\* longest enumerated token sequence (the end-of-input token not counted)
MaxToks == 3
\* most elements in an enumerated element forest
MaxElems == 3
\* longest enumerated comment body, in tokens
MaxBody == 4
\* most nodes one parse_ call collects before the model stops following it
MaxNodes == 5

----------------------------------------------------------------------------
\* Option<T>

None == <<>>
Some(x) == <<x>>
IsSome(o) == Len(o) > 0
Unwrap(o) == o[1]

----------------------------------------------------------------------------
\* Characters

UpperCase == <<"A","B","C","D","E","F","G","H","I","J","K","L","M",
               "N","O","P","Q","R","S","T","U","V","W","X","Y","Z">>
LowerCase == <<"a","b","c","d","e","f","g","h","i","j","k","l","m",
               "n","o","p","q","r","s","t","u","v","w","x","y","z">>
Digits == {"0","1","2","3","4","5","6","7","8","9"}
\* the characters of the model that UTF-8 encodes on two bytes (both letters)
TwoByteUpper == "U+00C9"
TwoByteLower == "U+00E9"

Range(s) == {s[i] : i \in DOMAIN s}

\* char::to_lowercase
CharToLower(c) ==
    IF c = TwoByteUpper THEN TwoByteLower
    ELSE IF \E i \in DOMAIN UpperCase : UpperCase[i] = c
         THEN LowerCase[CHOOSE i \in DOMAIN UpperCase : UpperCase[i] = c]
         ELSE c

\* str::to_lowercase
to_lowercase(s) == [i \in DOMAIN s |-> CharToLower(s[i])]

\* char::is_alphanumeric
is_alphanumeric(c) ==
    c \in Range(UpperCase) \cup Range(LowerCase) \cup Digits
          \cup {TwoByteUpper, TwoByteLower}

\* char::len_utf8
len_utf8(c) == IF c \in {TwoByteUpper, TwoByteLower} THEN 2 ELSE 1

\* String::len: the length in bytes
RECURSIVE ByteLen(_)
ByteLen(s) == IF s = <<>> THEN 0 ELSE len_utf8(Head(s)) + ByteLen(Tail(s))

is_alphanum_(c) == is_alphanumeric(c) \/ c = "_"

is_number(c) == c \in Digits

is_ws(c) == c = "\n" \/ c = "\t" \/ c = " "

is_reserved_symbol(c) == c \in {"<", ">", "!", "=", "-", "/", "&"}

----------------------------------------------------------------------------
\* Tokenizer (src/html/tokenizer.rs)

\* Position::new(1, 0, 0), as Tokenizer::new sets it
NewPosition == [line_no |-> 1, at_line |-> 0, at_whole |-> 0]

Tokenizer_is_eof == pos.at_whole >= ByteLen(target)

move_horizon(p, n) ==
    [p EXCEPT !.at_line = @ + n, !.at_whole = @ + n]

next_line(p) ==
    [p EXCEPT !.at_whole = @ + 1, !.line_no = @ + 1, !.at_line = 0]

\* target.chars().nth(at_whole): None past the last character
CharAt(n) == IF n + 1 <= Len(target) THEN Some(target[n + 1]) ELSE None

\* current_char() unwraps: it panics where CharAt is None
current_char == Unwrap(CharAt(pos.at_whole))

\* Token::new(kind, pos); v is the payload of the kind
Token(kind, v, p) == [kind |-> kind, v |-> v, pos |-> p]

\* the tokenizer's locals outside consume_*
TzLoop == [mode |-> "loop", s |-> <<>>, is_single |-> FALSE, include_dot |-> FALSE]
TzPanic == [TzLoop EXCEPT !.mode = "panic"]

\* <f64 as FromStr>::from_str on a string of digits and dots that starts
\* with a digit: Ok iff it holds at most one dot
ParsesAsF64(s) == Cardinality({i \in DOMAIN s : s[i] = "."}) <= 1

DigitValue(c) == CHOOSE n \in 0..9 : <<"0","1","2","3","4","5","6","7","8","9">>[n + 1] = c

\* the value of a digit string (f as i64, exact for the lengths modelled)
RECURSIVE IntegerValue(_)
IntegerValue(s) ==
    IF s = <<>> THEN 0
    ELSE IntegerValue(SubSeq(s, 1, Len(s) - 1)) * 10 + DigitValue(s[Len(s)])

\* link_*_token: append the token behind cur, which becomes the new token
Link(kind, v, p) == Append(head, Token(kind, v, p))

\* tokenize(): one pass of the main loop up to the call of consume_*
\* (consume_symbol and the one-character case of consume_text are whole)
Tokenize ==
    /\ pc = "tokenize" /\ tz.mode = "loop"
    /\ UNCHANGED <<input, target, toks, token, stack, ret, outcome>>
    /\ IF Tokenizer_is_eof
       THEN /\ head' = Link("Eof", <<>>, pos)
            /\ pc' = "tokenized"
            /\ UNCHANGED <<pos, tz>>
       ELSE IF ~IsSome(CharAt(pos.at_whole))
       THEN /\ tz' = TzPanic
            /\ UNCHANGED <<pc, pos, head>>
       ELSE LET c == current_char IN
            /\ pc' = pc
            /\ IF is_ws(c)
               THEN /\ tz' = [TzLoop EXCEPT !.mode = "ws"]
                    /\ UNCHANGED <<pos, head>>
               ELSE IF is_reserved_symbol(c)
               THEN /\ pos' = move_horizon(pos, 1)
                    /\ head' = Link("ReservedSymbol", <<c>>, pos')
                    /\ tz' = tz
               ELSE IF c = "'" \/ c = "\""
               THEN /\ pos' = move_horizon(pos, 1)
                    /\ tz' = [TzLoop EXCEPT !.mode = "string", !.is_single = (c = "'")]
                    /\ head' = head
               ELSE IF is_number(c)
               THEN /\ tz' = [TzLoop EXCEPT !.mode = "numeric"]
                    /\ UNCHANGED <<pos, head>>
               ELSE IF ~is_alphanum_(c)
               THEN /\ pos' = move_horizon(pos, 1)
                    /\ head' = Link("Text", <<c>>, pos')
                    /\ tz' = tz
               ELSE /\ tz' = [TzLoop EXCEPT !.mode = "text"]
                    /\ UNCHANGED <<pos, head>>

\* consume_ws(): one pass of its loop; on leaving it, link_ws_token
consume_ws ==
    /\ pc = "tokenize" /\ tz.mode = "ws"
    /\ UNCHANGED <<input, pc, target, toks, token, stack, ret, outcome>>
    /\ IF Tokenizer_is_eof
       THEN /\ head' = Link("Whitespace", <<>>, pos)
            /\ tz' = TzLoop
            /\ pos' = pos
       ELSE IF ~IsSome(CharAt(pos.at_whole))
       THEN /\ tz' = TzPanic
            /\ UNCHANGED <<pos, head>>
       ELSE IF is_ws(current_char) /\ current_char # "\n"
       THEN /\ tz' = [tz EXCEPT !.s = Append(@, current_char)]
            /\ pos' = move_horizon(pos, 1)
            /\ head' = head
       ELSE IF current_char = "\n"
       THEN /\ tz' = [tz EXCEPT !.s = Append(@, current_char)]
            /\ pos' = next_line(pos)
            /\ head' = head
       ELSE /\ head' = Link("Whitespace", <<>>, pos)
            /\ tz' = TzLoop
            /\ pos' = pos

\* consume_string(is_single): one pass of its loop (the opening quote was
\* consumed on entry); on leaving it, the closing quote and link_string_token
consume_string ==
    /\ pc = "tokenize" /\ tz.mode = "string"
    /\ UNCHANGED <<input, pc, target, toks, token, stack, ret, outcome>>
    /\ IF ~Tokenizer_is_eof /\ ~IsSome(CharAt(pos.at_whole))
       THEN /\ tz' = TzPanic
            /\ UNCHANGED <<pos, head>>
       ELSE IF \/ Tokenizer_is_eof
               \/ (current_char = "'" /\ tz.is_single)
               \/ (current_char = "\"" /\ ~tz.is_single)
       THEN /\ pos' = move_horizon(pos, 1)
            /\ head' = Link("String", tz.s, pos')
            /\ tz' = TzLoop
       ELSE /\ tz' = [tz EXCEPT !.s = Append(@, current_char)]
            /\ pos' = move_horizon(pos, 1)
            /\ head' = head

\* consume_numeric(): one pass of its loop; on leaving it, s.parse().unwrap()
\* and link_decimal_token or link_integer_token
consume_numeric ==
    /\ pc = "tokenize" /\ tz.mode = "numeric"
    /\ UNCHANGED <<input, pc, target, toks, token, stack, ret, outcome>>
    /\ IF ~Tokenizer_is_eof /\ ~IsSome(CharAt(pos.at_whole))
       THEN /\ tz' = TzPanic
            /\ UNCHANGED <<pos, head>>
       ELSE IF ~Tokenizer_is_eof /\ is_number(current_char)
       THEN /\ tz' = [tz EXCEPT !.s = Append(@, current_char)]
            /\ pos' = move_horizon(pos, 1)
            /\ head' = head
       ELSE IF ~Tokenizer_is_eof /\ current_char = "."
       THEN /\ tz' = [tz EXCEPT !.s = Append(@, current_char), !.include_dot = TRUE]
            /\ pos' = move_horizon(pos, 1)
            /\ head' = head
       ELSE IF ~ParsesAsF64(tz.s)
       THEN /\ tz' = TzPanic
            /\ UNCHANGED <<pos, head>>
       ELSE /\ head' = IF tz.include_dot
                       THEN Link("Decimal", tz.s, pos)
                       ELSE Link("Integer", IntegerValue(tz.s), pos)
            /\ tz' = TzLoop
            /\ pos' = pos

\* consume_text(), its first character alphanumeric: one pass of its loop;
\* on leaving it, link_text_token
consume_text ==
    /\ pc = "tokenize" /\ tz.mode = "text"
    /\ UNCHANGED <<input, pc, target, toks, token, stack, ret, outcome>>
    /\ IF ~Tokenizer_is_eof /\ ~IsSome(CharAt(pos.at_whole))
       THEN /\ tz' = TzPanic
            /\ UNCHANGED <<pos, head>>
       ELSE IF ~Tokenizer_is_eof /\ is_alphanum_(current_char)
       THEN /\ tz' = [tz EXCEPT !.s = Append(@, current_char)]
            /\ pos' = move_horizon(pos, 1)
            /\ head' = head
       ELSE /\ head' = Link("Text", tz.s, pos)
            /\ tz' = TzLoop
            /\ pos' = pos

----------------------------------------------------------------------------
\* The tokens the parser reads (src/html/parser.rs reads tok.kind, tok.s and
\* tok.next only)

PToken(kind, s) == [kind |-> kind, s |-> s]

\* the kind of each reserved symbol's token
SymbolKind(c) ==
    CASE c = "<" -> "TagBegin"
      [] c = ">" -> "TagEnd"
      [] c = "!" -> "Excl"
      [] c = "=" -> "Assign"
      [] c = "-" -> "Hyphen"
      [] c = "/" -> "Slash"
      [] c = "&" -> "Amp"

Sym(c) == PToken(SymbolKind(c), <<c>>)
TextTok(s) == PToken("Text", s)
StringTok(s) == PToken("String", s)
WsTok == PToken("Whitespace", <<>>)
EofTok == PToken("Eof", <<>>)

\* a token of the tokenizer as the parser reads it
ToParserToken(t) ==
    CASE t.kind = "ReservedSymbol" -> Sym(t.v[1])
      [] t.kind = "Text" -> TextTok(t.v)
      [] t.kind = "String" -> StringTok(t.v)
      [] t.kind = "Whitespace" -> WsTok
      [] t.kind = "Eof" -> EofTok
      [] OTHER -> PToken(t.kind, <<>>)

ToParserTokens(list) == [i \in DOMAIN list |-> ToParserToken(list[i])]

----------------------------------------------------------------------------
\* Nodes and errors (src/html/parser.rs, src/html/errors.rs)

Node(kind, params, lhs, rhs, children, s) ==
    [kind |-> kind, s |-> s, params |-> params, lhs |-> lhs, rhs |-> rhs,
     children |-> children]

TagMissMatch(open, close) ==
    [kind |-> "TagMissMatch", open |-> open, close |-> close]
UnexpectedToken(expected, found) ==
    [kind |-> "UnexpectedToken", expected |-> expected, found |-> found]
UnexpectedText(expected, found) ==
    [kind |-> "UnexpectedText", expected |-> expected, found |-> found]

\* Result<T, ParseError>, and "no call has returned"
Ok(v) == [st |-> "ok", val |-> v]
Err(e) == [st |-> "err", val |-> e]
NoRet == [st |-> "none", val |-> <<>>]

----------------------------------------------------------------------------
\* Parser (src/html/parser.rs)

\* a frame of the call stack: the function, the place in it, its locals; mark
\* is history, the cursor at the head of the current pass of the loop of
\* parse_, which no action reads
Frame(fn, at) ==
    [fn |-> fn, at |-> at, nodes |-> <<>>, text |-> <<>>,
     tag_name |-> <<>>, params |-> None, mark |-> None]

Top == stack[Len(stack)]
Running(fn, at) ==
    /\ pc = "parsing"
    /\ stack # <<>>
    /\ Top.fn = fn /\ Top.at = at

\* the stack with its top frame replaced / popped / with a callee pushed
SetTop(f) == [stack EXCEPT ![Len(stack)] = f]
Pop == SubSeq(stack, 1, Len(stack) - 1)
Call(f, callee) == Append(SetTop(f), callee)

\* return v to the caller
Return(v) == stack' = Pop /\ ret' = v

\* current_token(): self.token.clone().unwrap()
current_token == toks[Unwrap(token)]

\* the token at cursor t, and the cursor after it (Token.next)
At(t) == toks[Unwrap(t)]
NextOf(t) == IF Unwrap(t) < Len(toks) THEN Some(Unwrap(t) + 1) ELSE None

\* an is_eof that never sees the end-of-input token
Parser_is_eof_missed == FALSE

\* is_eof(): self.current_token().kind == TokenKind::Eof
Parser_is_eof == current_token.kind = "Eof"

\* consume(): the cursor after it
consume(t) == NextOf(t)

\* consume_kind(kind) at cursor t: the cursor after it
consume_kind(t, kind) == IF At(t).kind = kind THEN NextOf(t) ELSE t

\* expect_kind(kind) at cursor t: Ok(token) or Err(UnexpectedToken)
expect_kind(t, kind) ==
    IF At(t).kind = kind
    THEN Ok(Some(At(t)))
    ELSE Err(UnexpectedToken(kind, At(t)))

\* expect_text(text, false) at cursor t
expect_text(t, text) ==
    LET r == expect_kind(t, "Text") IN
    IF r.st = "err" THEN r
    ELSE IF to_lowercase(Unwrap(r.val).s) = text THEN Ok(<<>>)
    ELSE Err(UnexpectedText(text, r.val))

\* Parser::parse(token): self.token = Some(token.unwrap()); self.parse_()
parse ==
    /\ pc = "parse"
    /\ pc' = "parsing"
    /\ token' = Some(1)
    /\ stack' = <<Frame("parse_", "loop")>>
    /\ ret' = NoRet
    /\ UNCHANGED <<input, tokenizerVars, toks, outcome>>

\* ... and its return of what parse_ returned
parse_return ==
    /\ pc = "parsing" /\ stack = <<>> /\ ret.st # "none"
    /\ outcome' = ret
    /\ pc' = "done"
    /\ UNCHANGED <<input, tokenizerVars, toks, token, stack, ret>>

\* a push that puts the new element first
push_front(v, x) == <<x>> \o v

\* Vec::push
push(v, x) == Append(v, x)

\* what parse_ returns once its loop is left
NodesResult(nodes) == IF Len(nodes) = 0 THEN Ok(None) ELSE Ok(Some(nodes))

\* parse_(): the head of one pass of its loop, up to the call of parse_tag or
\* parse_text; or the return once the end-of-input token is reached
parse_ ==
    /\ Running("parse_", "loop")
    /\ UNCHANGED <<input, pc, tokenizerVars, toks, outcome>>
    /\ IF Parser_is_eof
       THEN /\ Return(NodesResult(Top.nodes))
            /\ token' = token
       ELSE /\ Len(Top.nodes) < MaxNodes
            /\ ret' = NoRet
            /\ LET t1 == consume_kind(token, "Whitespace") IN
               IF At(t1).kind = "TagBegin"
               THEN /\ token' = NextOf(t1)
                    /\ stack' = Call([Top EXCEPT !.at = "call", !.mark = token],
                                     Frame("parse_tag", "start"))
               ELSE /\ token' = t1
                    /\ stack' = Call([Top EXCEPT !.at = "call", !.mark = token],
                                     Frame("parse_text", "loop"))

\* parse_(): the rest of the pass, on the return of parse_tag or parse_text
parse_node ==
    /\ Running("parse_", "call") /\ ret.st # "none"
    /\ UNCHANGED <<input, pc, tokenizerVars, toks, outcome>>
    /\ IF ret.st = "err"
       THEN /\ Return(ret)
            /\ token' = token
       ELSE IF IsSome(ret.val)
       THEN /\ stack' = SetTop([Top EXCEPT !.at = "loop",
                                           !.nodes = push(@, ret.val)])
            /\ token' = consume_kind(token, "Whitespace")
            /\ ret' = NoRet
       ELSE /\ Return(NodesResult(Top.nodes))
            /\ token' = token

\* a parse_text that also consumes the whitespace between two text tokens
parse_text_over_ws ==
    /\ Running("parse_text", "loop")
    /\ UNCHANGED <<input, pc, tokenizerVars, toks, outcome>>
    /\ IF ~Parser_is_eof /\ current_token.kind = "Text"
       THEN /\ stack' = SetTop([Top EXCEPT !.text = @ \o current_token.s])
            /\ token' = consume_kind(consume_kind(token, "Text"), "Whitespace")
            /\ ret' = ret
       ELSE /\ Return(Ok(Some(Node("Text", None, None, None, None, Top.text))))
            /\ token' = token

\* parse_text(): one pass of its loop, or its return
parse_text ==
    /\ Running("parse_text", "loop")
    /\ UNCHANGED <<input, pc, tokenizerVars, toks, outcome>>
    /\ IF ~Parser_is_eof /\ current_token.kind = "Text"
       THEN /\ stack' = SetTop([Top EXCEPT !.text = @ \o current_token.s])
            /\ token' = consume_kind(token, "Text")
            /\ ret' = ret
       ELSE /\ Return(Ok(Some(Node("Text", None, None, None, None, Top.text))))
            /\ token' = token

\* parse_tag(): from its entry to the call of parse_tag_parameters, to its
\* tail call of parse_decl_tag, or to its return
parse_tag ==
    /\ Running("parse_tag", "start")
    /\ UNCHANGED <<input, pc, tokenizerVars, toks, outcome>>
    /\ IF current_token.kind = "Excl"
       THEN /\ token' = consume_kind(token, "Excl")
            /\ stack' = SetTop(Frame("parse_decl_tag", "start"))
            /\ ret' = ret
       ELSE IF current_token.kind = "Slash"
       THEN /\ Return(Ok(None))
            /\ token' = token
       ELSE LET name == expect_kind(token, "Text") IN
            IF name.st = "err"
            THEN /\ Return(name)
                 /\ token' = token
            ELSE /\ token' = consume_kind(NextOf(token), "Whitespace")
                 /\ stack' = Call([Top EXCEPT
                                      !.at = "params",
                                      !.tag_name = to_lowercase(Unwrap(name.val).s)],
                                  Frame("parse_tag_parameters", "loop"))
                 /\ ret' = ret

\* what parse_tag_parameters returns once its loop is left
ParametersResult(children) ==
    IF Len(children) = 0
    THEN Ok(None)
    ELSE Ok(Some(Node("Parameters", None, None, None, Some(children), <<>>)))

\* the Parameter node of `param_name = value`
Parameter(param_name, value) ==
    Node("Parameter",
         Some(Node("Identifier", None, None, None, None, param_name.s)),
         Some(Node("String", None, None, None, None, value.s)),
         None, None, <<>>)

\* parse_tag_parameters(): one pass of its loop, or its return
parse_tag_parameters ==
    /\ Running("parse_tag_parameters", "loop")
    /\ UNCHANGED <<input, pc, tokenizerVars, toks, outcome>>
    /\ IF Parser_is_eof
       THEN /\ Return(ParametersResult(Top.nodes))
            /\ token' = token
       ELSE LET t1 == consume_kind(token, "Whitespace") IN
            IF At(t1).kind = "TagEnd" \/ At(t1).kind = "Slash"
            THEN /\ Return(ParametersResult(Top.nodes))
                 /\ token' = t1
            ELSE LET t2 == consume_kind(t1, "Whitespace") IN
                 IF At(t2).kind # "Text"
                 THEN /\ Return(Err(UnexpectedToken("Text", At(t2))))
                      /\ token' = t2
                 ELSE LET t3 == NextOf(t2)
                          eq == expect_kind(t3, "Assign") IN
                      IF eq.st = "err"
                      THEN /\ Return(eq)
                           /\ token' = t3
                      ELSE LET t4 == NextOf(t3)
                               value == expect_kind(t4, "String") IN
                           IF value.st = "err"
                           THEN /\ Return(value)
                                /\ token' = t4
                           ELSE /\ stack' = SetTop([Top EXCEPT !.nodes =
                                       push(@, Some(Parameter(At(t2), Unwrap(value.val))))])
                                /\ token' = consume_kind(NextOf(t4), "Whitespace")
                                /\ ret' = ret

\* a self-closing element built with the kind of an element with a close tag
SoloTag_KindTag(params, tag_name) == Node("Tag", params, None, None, None, tag_name)

\* the node of a self-closing element
SoloTag(params, tag_name) == Node("SoloTag", params, None, None, None, tag_name)

\* parse_tag(): on the return of parse_tag_parameters, up to the return of a
\* SoloTag or to the call of parse_ for the children
parse_tag_body ==
    /\ Running("parse_tag", "params") /\ ret.st # "none"
    /\ UNCHANGED <<input, pc, tokenizerVars, toks, outcome>>
    /\ IF ret.st = "err"
       THEN /\ Return(ret)
            /\ token' = token
       ELSE LET t1 == consume_kind(token, "Whitespace") IN
            IF At(t1).kind = "Slash"
            THEN LET t2 == NextOf(t1)
                     end == expect_kind(t2, "TagEnd") IN
                 IF end.st = "err"
                 THEN /\ Return(end)
                      /\ token' = t2
                 ELSE /\ Return(Ok(Some(SoloTag(ret.val, Top.tag_name))))
                      /\ token' = NextOf(t2)
            ELSE LET end == expect_kind(t1, "TagEnd") IN
                 IF end.st = "err"
                 THEN /\ Return(end)
                      /\ token' = t1
                 ELSE /\ token' = NextOf(t1)
                      /\ stack' = Call([Top EXCEPT !.at = "children",
                                                   !.params = ret.val],
                                       Frame("parse_", "loop"))
                      /\ ret' = NoRet

\* a comparison of the opening name with itself
TagNamesDiffer_OpenOnly(tag_name, close_tag_name) == tag_name # tag_name

\* tag miss match: tag_name != close_tag_name
TagNamesDiffer(tag_name, close_tag_name) == tag_name # close_tag_name

\* parse_tag(): on the return of parse_ with the children, the close tag
parse_tag_close ==
    /\ Running("parse_tag", "children") /\ ret.st # "none"
    /\ UNCHANGED <<input, pc, tokenizerVars, toks, outcome>>
    /\ IF ret.st = "err"
       THEN /\ Return(ret)
            /\ token' = token
       ELSE LET slash == expect_kind(token, "Slash") IN
            IF slash.st = "err"
            THEN /\ Return(slash)
                 /\ token' = token
            ELSE LET t2 == NextOf(token)
                     name == expect_kind(t2, "Text") IN
                 IF name.st = "err"
                 THEN /\ Return(name)
                      /\ token' = t2
                 ELSE LET t3 == NextOf(t2)
                          end == expect_kind(t3, "TagEnd")
                          close_tag_name == to_lowercase(Unwrap(name.val).s) IN
                      IF end.st = "err"
                      THEN /\ Return(end)
                           /\ token' = t3
                      ELSE /\ token' = NextOf(t3)
                           /\ IF TagNamesDiffer(Top.tag_name, close_tag_name)
                              THEN Return(Err(TagMissMatch(Top.tag_name, close_tag_name)))
                              ELSE Return(Ok(Some(Node("Tag", Top.params, None, None,
                                                       ret.val, Top.tag_name))))

\* the literal expect_text is called with
DoctypeWord == <<"d", "o", "c", "t", "y", "p", "e">>

\* parse_decl_tag() from `consume doctype` on, at cursor t: the result and
\* the cursor it leaves
Doctype(t) ==
    LET word == expect_text(t, DoctypeWord) IN
    IF word.st = "err"
    THEN [res |-> word, token |-> IF At(t).kind = "Text" THEN NextOf(t) ELSE t]
    ELSE LET t2 == NextOf(t)
             ws == expect_kind(t2, "Whitespace") IN
         IF ws.st = "err" THEN [res |-> ws, token |-> t2]
         ELSE LET t3 == NextOf(t2)
                  type == expect_kind(t3, "Text") IN
              IF type.st = "err" THEN [res |-> type, token |-> t3]
              ELSE LET t4 == NextOf(t3)
                       end == expect_kind(t4, "TagEnd") IN
                   IF end.st = "err" THEN [res |-> end, token |-> t4]
                   ELSE [res |-> Ok(Some(Node("DoctypeTag", None, None, None, None,
                                              to_lowercase(Unwrap(type.val).s)))),
                         token |-> NextOf(t4)]

\* parse_decl_tag(): from its entry to the comment loop, or the doctype
parse_decl_tag ==
    /\ Running("parse_decl_tag", "start")
    /\ UNCHANGED <<input, pc, tokenizerVars, toks, outcome>>
    /\ IF current_token.kind = "Hyphen"
       THEN LET t2 == NextOf(token)
                second == expect_kind(t2, "Hyphen") IN
            IF second.st = "err"
            THEN /\ Return(second)
                 /\ token' = t2
            ELSE /\ token' = NextOf(t2)
                 /\ stack' = SetTop([Top EXCEPT !.at = "comment"])
                 /\ ret' = ret
       ELSE /\ Return(Doctype(token).res)
            /\ token' = Doctype(token).token

\* parse_decl_tag(): one pass of the comment loop; once the end-of-input
\* token is reached the loop is left and the doctype is expected
parse_comment ==
    /\ Running("parse_decl_tag", "comment")
    /\ UNCHANGED <<input, pc, tokenizerVars, toks, outcome>>
    /\ IF Parser_is_eof
       THEN /\ Return(Doctype(token).res)
            /\ token' = Doctype(token).token
       ELSE IF current_token.kind = "Hyphen"
       THEN LET t2 == NextOf(token) IN
            IF At(t2).kind = "Hyphen"
            THEN LET t3 == NextOf(t2) IN
                 IF At(t3).kind = "TagEnd"
                 THEN /\ Return(Ok(Some(Node("CommentTag", None, None, None, None,
                                             Top.text))))
                      /\ token' = NextOf(t3)
                 ELSE /\ stack' = SetTop([Top EXCEPT !.text = @ \o <<"-", "-">>])
                      /\ token' = t3
                      /\ ret' = ret
            ELSE /\ stack' = SetTop([Top EXCEPT !.text = @ \o <<"-">>])
                 /\ token' = t2
                 /\ ret' = ret
       ELSE IF current_token.kind = "Whitespace"
       THEN /\ stack' = SetTop([Top EXCEPT !.text = @ \o <<" ">>])
            /\ token' = consume_kind(token, "Whitespace")
            /\ ret' = ret
       ELSE /\ stack' = SetTop([Top EXCEPT !.text = @ \o current_token.s])
            /\ token' = consume(token)
            /\ ret' = ret

----------------------------------------------------------------------------
\* The inputs of a run

\* parser.rs test parse_only_decl
Sample_parse_only_decl ==
    <<"<","!","d","o","c","t","y","p","e"," ","h","t","m","l",">","<","!",
      "-","-"," ","h","e","l","l","o",","," ","w","-","-","o","r","l","d",
      " ","-","-",">">>

\* parser.rs test parse_html_tag
Sample_parse_html_tag ==
    <<"<","h","t","m","l",">","<","/","h","t","m","l",">">>

\* parser.rs test parse_html_body
Sample_parse_html_body ==
    <<"<","h","t","m","l",">","<","b","o","d","y",">","<","/","b","o","d",
      "y",">","<","/","h","t","m","l",">">>

\* parser.rs test parse_html_body_h1_img
Sample_parse_html_body_h1_img ==
    <<"<","!","D","O","C","T","Y","P","E"," ","h","t","m","l",">"," ","<",
      "h","t","m","l",">","<","b","o","d","y",">","<","h","1",">","h","e",
      "l","l","o","<","/","h","1",">","<","i","m","g"," ","s","r","c","=",
      "\"","h","t","t","p","s",":","/","/","g","o","o","g","l","e",".","c",
      "o","m","\"","/",">","<","/","b","o","d","y",">","<","/","h","t","m",
      "l",">">>

\* tokenizer.rs test tokenize
Sample_tokenize ==
    <<"<","h","1",">","h","e","l","l","o",","," ","w","o","r","l","d","<",
      "/","h","1",">">>

\* a self-closing element between two texts
Sample_hello_br_world ==
    <<"h","e","l","l","o","<","b","r","/",">","w","o","r","l","d">>

\* an attribute value that is never terminated
Sample_unterminated_value ==
    <<"<","a"," ","h","r","e","f","=","\"","x">>

\* an element whose closing tag is missing
Sample_missing_close ==
    <<"<","a",">">>

\* a closing name in another case than the opening name
Sample_upper_open ==
    <<"<","H","T","M","L",">","<","/","h","t","m","l",">">>

\* ... and the other way round
Sample_upper_close ==
    <<"<","h","t","m","l",">","<","/","H","T","M","L",">">>

\* a self-closing element with one attribute
Sample_img ==
    <<"<","i","m","g"," ","s","r","c","=","\"","X","\"","/",">">>

\* attributes in single quotes, on an element with a text child
Sample_single_quoted ==
    <<"<","a"," ","B","=","'","c","'"," ","d","=","'","e","'",">","x"," ",
      "y","<","/","a",">">>

\* two self-closing elements inside an element
Sample_two_solo ==
    <<"<","p",">","<","b","r","/",">","<","h","r"," ","/",">","<","/","p",
      ">">>

\* a text with newlines in and outside a string literal
Sample_multiline ==
    <<"<","a"," ","b","=","\"","x","\n","y","\"",">","\n","<","/","a",">",
      "\n">>

SampleSources ==
    {Sample_parse_only_decl,
     Sample_parse_html_tag,
     Sample_parse_html_body,
     Sample_parse_html_body_h1_img,
     Sample_tokenize,
     Sample_hello_br_world,
     Sample_unterminated_value,
     Sample_missing_close,
     Sample_upper_open,
     Sample_upper_close,
     Sample_img,
     Sample_single_quoted,
     Sample_two_solo,
     Sample_multiline}

\* all sequences over S of length at most n
SeqsUpTo(S, n) == UNION {[1..k -> S] : k \in 0..n}

\* the characters of the enumerated source texts
SourceAlphabet == {"<", "/", ">", " ", "\n", "\"", "a", "1", ".", TwoByteLower}

Sources == SeqsUpTo(SourceAlphabet, MaxChars) \cup SampleSources

\* the tokens of the enumerated token sequences
TokenAlphabet ==
    {Sym("<"), Sym(">"), Sym("!"), Sym("="), Sym("-"), Sym("/"), Sym("&"),
     WsTok, StringTok(<<"x">>), TextTok(<<"a">>), TextTok(<<"b">>)}

\* the token lists of <HTML></html>, <html></HTML> and hello<br/>world
Tokens_upper_open ==
    <<Sym("<"), TextTok(<<"H", "T", "M", "L">>), Sym(">"),
      Sym("<"), Sym("/"), TextTok(<<"h", "t", "m", "l">>), Sym(">")>>
Tokens_upper_close ==
    <<Sym("<"), TextTok(<<"h", "t", "m", "l">>), Sym(">"),
      Sym("<"), Sym("/"), TextTok(<<"H", "T", "M", "L">>), Sym(">")>>
Tokens_hello_br_world ==
    <<TextTok(<<"h", "e", "l", "l", "o">>),
      Sym("<"), TextTok(<<"b", "r">>), Sym("/"), Sym(">"),
      TextTok(<<"w", "o", "r", "l", "d">>)>>

\* the token list of x</a>y
Tokens_stray_close ==
    <<TextTok(<<"x">>), Sym("<"), Sym("/"), TextTok(<<"a">>), Sym(">"),
      TextTok(<<"y">>)>>

SampleTokenLists ==
    {Tokens_upper_open, Tokens_upper_close, Tokens_hello_br_world,
     Tokens_stray_close}

\* the tokens of the enumerated comment bodies
CommentAlphabet == {Sym("-"), Sym(">"), WsTok, TextTok(<<"a">>)}

\* an element of an element forest: <open attrs>children</close>, or
\* <open attrs/>
TagElem(open, close, children) ==
    [kind |-> "Tag", open |-> open, close |-> close, attrs |-> <<>>,
     children |-> children]
SoloElem(name, attrs) ==
    [kind |-> "SoloTag", open |-> name, close |-> <<>>, attrs |-> attrs,
     children |-> <<>>]

\* the opening and closing names of the enumerated elements
TagNamePairs ==
    {<< <<"a">>, <<"a">> >>, << <<"A">>, <<"a">> >>, << <<"a">>, <<"A">> >>,
     << <<"b">>, <<"B">> >>, << <<"a">>, <<"b">> >>, << <<"B">>, <<"a">> >>}

SoloElems ==
    {SoloElem(<<"B", "R">>, <<>>),
     SoloElem(<<"b", "r">>, <<[name |-> <<"I", "d">>, value |-> <<"x">>]>>)}

\* the forests of exactly n elements, and the elements of exactly n elements
RECURSIVE ForestsOf(_), ElemsOf(_)
ForestsOf(n) ==
    IF n = 0 THEN {<<>>}
    ELSE UNION {{<<e>> \o rest : e \in ElemsOf(k), rest \in ForestsOf(n - k)} :
                k \in 1..n}
ElemsOf(n) ==
    {TagElem(p[1], p[2], kids) : p \in TagNamePairs, kids \in ForestsOf(n - 1)}
    \cup (IF n = 1 THEN SoloElems ELSE {})

ElementForests == UNION {ForestsOf(n) : n \in 1..MaxElems}

\* the tokens of an element forest, as the tokenizer cuts its markup
RECURSIVE AttrTokens(_)
AttrTokens(attrs) ==
    IF attrs = <<>> THEN <<>>
    ELSE <<WsTok, TextTok(Head(attrs).name), Sym("="), StringTok(Head(attrs).value)>>
         \o AttrTokens(Tail(attrs))

RECURSIVE ForestTokens(_)
ForestTokens(forest) ==
    IF forest = <<>> THEN <<>>
    ELSE LET e == Head(forest) IN
         (IF e.kind = "SoloTag"
          THEN <<Sym("<"), TextTok(e.open)>> \o AttrTokens(e.attrs)
               \o <<Sym("/"), Sym(">")>>
          ELSE <<Sym("<"), TextTok(e.open)>> \o AttrTokens(e.attrs) \o <<Sym(">")>>
               \o ForestTokens(e.children)
               \o <<Sym("<"), Sym("/"), TextTok(e.close), Sym(">")>>)
         \o ForestTokens(Tail(forest))

CommentOpen == <<Sym("<"), Sym("!"), Sym("-"), Sym("-")>>

In(form, val) == [form |-> form, val |-> val]

\* the token list of an input that is not a source text
InputTokens(i) ==
    CASE i.form = "tokens" -> i.val \o <<EofTok>>
      [] i.form = "elements" -> ForestTokens(i.val) \o <<EofTok>>
      [] i.form = "comment" -> CommentOpen \o i.val \o <<EofTok>>
      [] OTHER -> <<>>

----------------------------------------------------------------------------
\* The state machine

\* Tokenizer::new(source) and Parser::new(), for the input i
Start(i) ==
    /\ input = i
    /\ pc = IF i.form = "source" THEN "tokenize" ELSE "parse"
    /\ target = IF i.form = "source" THEN i.val ELSE <<>>
    /\ pos = NewPosition
    /\ tz = TzLoop
    /\ head = <<>>
    /\ toks = InputTokens(i)
    /\ token = None
    /\ stack = <<>>
    /\ ret = NoRet
    /\ outcome = NoRet

Init ==
    \/ \E s \in Sources : Start(In("source", s))
    \/ \E s \in SeqsUpTo(TokenAlphabet, MaxToks) \cup SampleTokenLists :
           Start(In("tokens", s))
    \/ \E f \in ElementForests : Start(In("elements", f))
    \/ \E b \in SeqsUpTo(CommentAlphabet, MaxBody) : Start(In("comment", b))

\* the caller hands the token list of tokenize() to the parser
Handoff ==
    /\ pc = "tokenized"
    /\ toks' = ToParserTokens(head)
    /\ pc' = "parse"
    /\ UNCHANGED <<input, tokenizerVars, token, stack, ret, outcome>>

Next ==
    \/ Tokenize
    \/ consume_ws
    \/ consume_string
    \/ consume_numeric
    \/ consume_text
    \/ Handoff
    \/ parse
    \/ parse_return
    \/ parse_
    \/ parse_node
    \/ parse_text
    \/ parse_tag
    \/ parse_tag_parameters
    \/ parse_tag_body
    \/ parse_tag_close
    \/ parse_decl_tag
    \/ parse_comment

Spec == Init /\ [][Next]_vars

----------------------------------------------------------------------------
\* Properties

\* the nodes of an Option<Vec<Option<Box<Node>>>>, as a sequence
Nodes(children) ==
    IF IsSome(children)
    THEN [i \in DOMAIN Unwrap(children) |-> Unwrap(Unwrap(children)[i])]
    ELSE <<>>

\* the shape of a parsed forest: per node its kind, its case-folded name and
\* the shape of its children, in order
RECURSIVE Shape(_)
Shape(children) ==
    [i \in DOMAIN Nodes(children) |->
        LET n == Nodes(children)[i] IN
        [kind |-> n.kind, s |-> to_lowercase(n.s), children |-> Shape(n.children)]]

\* the shape of an element forest
RECURSIVE ShapeOfElements(_)
ShapeOfElements(forest) ==
    [i \in DOMAIN forest |->
        [kind |-> forest[i].kind, s |-> to_lowercase(forest[i].open),
         children |-> ShapeOfElements(forest[i].children)]]

\* an element whose closing name differs from its opening name under
\* case-folding
Mismatched(e) == e.kind = "Tag" /\ to_lowercase(e.open) # to_lowercase(e.close)

\* the mismatched element of a forest whose close tag comes first in the
\* source, if any
RECURSIVE FirstMismatch(_)
FirstMismatch(forest) ==
    IF forest = <<>> THEN None
    ELSE LET e == Head(forest)
             inner == FirstMismatch(e.children) IN
         IF IsSome(inner) THEN inner
         ELSE IF Mismatched(e) THEN Some(e)
         ELSE FirstMismatch(Tail(forest))

Balanced(forest) == ~IsSome(FirstMismatch(forest))

\* the number of mismatched elements of a forest
RECURSIVE Mismatches(_)
Mismatches(forest) ==
    IF forest = <<>> THEN 0
    ELSE (IF Mismatched(Head(forest)) THEN 1 ELSE 0)
         + Mismatches(Head(forest).children) + Mismatches(Tail(forest))

\* the kinds of the tokens handed to the parser
Kinds == [i \in DOMAIN toks |-> toks[i].kind]

TextNode(s) == Node("Text", None, None, None, None, s)

\* C1 (as claimed): every pass of the loop of parse_ that collects a node
\* leaves the cursor further than the pass found it, whatever the token at
\* node position, so that the loop ends
C1_LoopProgress ==
    [][(Running("parse_", "call") /\ ret.st = "ok" /\ IsSome(ret.val))
         => Unwrap(token') > Unwrap(Top.mark)]_vars

\* C2: a balanced nesting of elements, each closing name equal to its opening
\* name under case-folding, parses to a forest of the same shape: the same
\* elements, nested the same way, in source order at every depth; so do
\* <HTML></html> and <html></HTML>
C2_BalancedMirrors ==
    /\ (pc = "done" /\ input.form = "elements" /\ Balanced(input.val))
         => /\ outcome.st = "ok"
            /\ Shape(outcome.val) = ShapeOfElements(input.val)
    /\ (pc = "done" /\ input.form = "tokens"
          /\ input.val \in {Tokens_upper_open, Tokens_upper_close})
         => /\ outcome.st = "ok"
            /\ Shape(outcome.val)
                 = <<[kind |-> "Tag", s |-> <<"h", "t", "m", "l">>, children |-> <<>>]>>

\* C2: an element in another case than its close tag, with a child, is parsed
C2_Witness ==
    /\ pc = "done" /\ input.form = "elements" /\ Balanced(input.val)
    /\ Len(input.val) = 1
    /\ input.val[1].kind = "Tag" /\ input.val[1].open # input.val[1].close
    /\ input.val[1].children # <<>>
    /\ outcome.st = "ok"

\* C3: a nesting with a mismatched element fails with TagMissMatch carrying
\* the lower-cased opening and closing names of the mismatched element whose
\* close tag comes first in the source, and returns no node
C3_FirstMismatchReported ==
    (pc = "done" /\ input.form = "elements" /\ ~Balanced(input.val))
      => /\ outcome.st = "err"
         /\ outcome.val
              = TagMissMatch(to_lowercase(Unwrap(FirstMismatch(input.val)).open),
                             to_lowercase(Unwrap(FirstMismatch(input.val)).close))

\* C3: a mismatched element inside a mismatched element has failed
C3_Witness ==
    /\ pc = "done" /\ input.form = "elements"
    /\ Mismatches(input.val) = 2
    /\ Len(input.val) = 1
    /\ input.val[1].open # Unwrap(FirstMismatch(input.val)).open
    /\ outcome.st = "err"

\* parse_tag has just returned the node of a self-closing element
ReturnedSoloTag ==
    /\ pc = "parsing" /\ stack # <<>>
    /\ Top.fn = "parse_" /\ Top.at = "call"
    /\ ret.st = "ok" /\ IsSome(ret.val)
    /\ Unwrap(ret.val).kind = "SoloTag"

\* C4: when parse_tag returns the node of a self-closing element the node has
\* no children and the cursor is on the token right after the "/" ">" that
\* ends the element, which began at the "<" the pass consumed; two
\* self-closing elements in sequence give two sibling nodes in order, and
\* hello<br/>world gives Text hello, SoloTag br, Text world
C4_SoloTagStopsAtItsEnd ==
    /\ ReturnedSoloTag
         => /\ Unwrap(ret.val).children = None
            /\ Kinds[Unwrap(token) - 1] = "TagEnd"
            /\ Kinds[Unwrap(token) - 2] = "Slash"
            /\ \A i \in Unwrap(Top.mark)..(Unwrap(token) - 3) : Kinds[i] # "Slash"
    /\ (pc = "done" /\ input.form = "elements" /\ Len(input.val) = 2
          /\ input.val[1].kind = "SoloTag" /\ input.val[2].kind = "SoloTag")
         => /\ outcome.st = "ok"
            /\ Len(Nodes(outcome.val)) = 2
            /\ \A i \in 1..2 :
                 /\ Nodes(outcome.val)[i].kind = "SoloTag"
                 /\ Nodes(outcome.val)[i].s = to_lowercase(input.val[i].open)
                 /\ IsSome(Nodes(outcome.val)[i].params) = (input.val[i].attrs # <<>>)
    /\ (pc = "done" /\ input.form = "tokens" /\ input.val = Tokens_hello_br_world)
         => /\ outcome.st = "ok"
            /\ Nodes(outcome.val)
                 = <<TextNode(<<"h", "e", "l", "l", "o">>),
                     Node("SoloTag", None, None, None, None, <<"b", "r">>),
                     TextNode(<<"w", "o", "r", "l", "d">>)>>

\* C4: a self-closing element has been returned in front of a closing tag
C4_Witness ==
    /\ ReturnedSoloTag
    /\ Kinds[Unwrap(token)] = "TagBegin"
    /\ Kinds[Unwrap(token) + 1] = "Slash"

\* C5 (as claimed): [text a][whitespace][text b] gives one Text node, ab
C5_OneTextNode ==
    (pc = "done" /\ Kinds = <<"Text", "Whitespace", "Text", "Eof">>)
      => /\ outcome.st = "ok"
         /\ Nodes(outcome.val) = <<TextNode(toks[1].s \o toks[3].s)>>

\* the Text nodes of a list of text and whitespace tokens: one per run of
\* text tokens that directly follow each other (run: the run being read)
RECURSIVE TextRuns(_, _)
TextRuns(list, run) ==
    LET node == IF run = <<>> THEN <<>> ELSE <<TextNode(run)>> IN
    IF list = <<>> THEN node
    ELSE IF Head(list).kind = "Whitespace"
    THEN node \o TextRuns(Tail(list), <<>>)
    ELSE TextRuns(Tail(list), run \o Head(list).s)

\* a token list of text tokens and single whitespace tokens, with a text
\* token in it, before the end-of-input token
TextAndWhitespace ==
    /\ Len(toks) >= 2
    /\ \A i \in 1..(Len(toks) - 1) : Kinds[i] \in {"Text", "Whitespace"}
    /\ \E i \in 1..(Len(toks) - 1) : Kinds[i] = "Text"
    /\ \A i \in 1..(Len(toks) - 2) :
           ~(Kinds[i] = "Whitespace" /\ Kinds[i + 1] = "Whitespace")

\* C5 (amended): text tokens that directly follow each other are
\* concatenated into one Text node; a whitespace token ends the run and is
\* dropped, so that [text a][whitespace][text b] gives two sibling Text
\* nodes, a and b
C5_TextNodePerRun ==
    /\ (pc = "done" /\ TextAndWhitespace)
         => /\ outcome.st = "ok"
            /\ Nodes(outcome.val) = TextRuns(SubSeq(toks, 1, Len(toks) - 1), <<>>)
    /\ (pc = "done" /\ Kinds = <<"Text", "Whitespace", "Text", "Eof">>)
         => /\ outcome.st = "ok"
            /\ Nodes(outcome.val) = <<TextNode(toks[1].s), TextNode(toks[3].s)>>

\* C5: a b has been parsed
C5_Witness ==
    /\ pc = "done" /\ Kinds = <<"Text", "Whitespace", "Text", "Eof">>
    /\ toks[1].s # toks[3].s
    /\ outcome.st = "ok"

\* every tag name and every attribute name of a forest is stored lower-cased
RECURSIVE NamesLowerCased(_)
NamesLowerCased(children) ==
    \A i \in DOMAIN Nodes(children) :
        LET n == Nodes(children)[i] IN
        /\ n.kind \in {"Tag", "SoloTag"} => n.s = to_lowercase(n.s)
        /\ n.kind = "Identifier" => n.s = to_lowercase(n.s)
        /\ NamesLowerCased(n.children)
        /\ \A o \in {n.params, n.lhs, n.rhs} :
               IsSome(o) => NamesLowerCased(Some(<<o>>))

\* C6 (as claimed): in every forest parse returns, every tag name and every
\* attribute name is stored lower-cased
C6_NamesLowerCased ==
    (pc = "done" /\ outcome.st = "ok") => NamesLowerCased(outcome.val)

\* the tokenizer has panicked
Panicked == tz.mode = "panic"

\* C7 (as claimed): <a href="x (the value never terminated) and <a> (the
\* closing tag missing) both fail, neither crashes nor returns a forest, and
\* the first fails with another error kind than the UnexpectedToken the
\* second fails with
C7_DistinctErrorKinds ==
    /\ (input.form = "source"
          /\ input.val \in {Sample_unterminated_value, Sample_missing_close})
         => /\ ~Panicked
            /\ pc = "done" => outcome.st = "err"
    /\ (pc = "done" /\ input.form = "source" /\ input.val = Sample_missing_close)
         => outcome.val.kind = "UnexpectedToken"
    /\ (pc = "done" /\ input.form = "source" /\ input.val = Sample_unterminated_value)
         => outcome.val.kind # "UnexpectedToken"

\* C8 (as claimed): tokenize never crashes, whatever the source text, and
\* what it returns is not empty and holds the end-of-input token once, last
C8_TokenizeTotal ==
    /\ ~Panicked
    /\ pc = "tokenized"
         => /\ head # <<>>
            /\ \A i \in DOMAIN head : (head[i].kind = "Eof") = (i = Len(head))

\* the terminators of a comment body: the places where two "-" tokens are
\* directly followed by a ">" token
Terminators(body) ==
    {k \in 1..(Len(body) - 2) :
        /\ body[k].kind = "Hyphen"
        /\ body[k + 1].kind = "Hyphen"
        /\ body[k + 2].kind = "TagEnd"}

Min(S) == CHOOSE k \in S : \A j \in S : k <= j

\* the text of a comment body: a space per whitespace token, the payload of
\* every other token
RECURSIVE CommentText(_)
CommentText(body) ==
    IF body = <<>> THEN <<>>
    ELSE (IF Head(body).kind = "Whitespace" THEN <<" ">> ELSE Head(body).s)
         \o CommentText(Tail(body))

\* the first call of the top-level parse_ has just returned
FirstNodeReturned ==
    /\ pc = "parsing" /\ Len(stack) = 1
    /\ Top.at = "call" /\ Top.nodes = <<>>
    /\ ret.st # "none"

\* C9 (as claimed): after <!-- parse_decl_tag returns a CommentTag at the
\* first terminator of the body, its text the body before that terminator
C9_CommentEndsAtFirstTerminator ==
    (FirstNodeReturned /\ input.form = "comment" /\ Terminators(input.val) # {})
      => LET k == Min(Terminators(input.val)) IN
         /\ ret.st = "ok"
         /\ ret.val = Some(Node("CommentTag", None, None, None, None,
                                CommentText(SubSeq(input.val, 1, k - 1))))
         /\ token = Some(Len(CommentOpen) + k + 3)

\* the newline characters consumed so far
NewlinesConsumed ==
    Cardinality({i \in DOMAIN target : i <= pos.at_whole /\ target[i] = "\n"})

\* C10 (as claimed): at every point of a scan line_number is 1 + the number
\* of newline characters consumed so far, wherever they occur
C10_LineNumberCountsNewlines == pos.line_no = 1 + NewlinesConsumed

----------------------------------------------------------------------------
\* C11

\* the kinds consume_kind and expect_kind are called with
ConsumedKinds ==
    {"Whitespace", "TagBegin", "TagEnd", "Excl", "Assign", "Hyphen", "Slash",
     "Text", "String"}

\* the token list ends with the end-of-input token and holds no other
Terminated ==
    /\ Len(toks) >= 1
    /\ \A i \in DOMAIN toks : (Kinds[i] = "Eof") <=> (i = Len(toks))

\* a parse is under way or has returned
Parsing == pc \in {"parsing", "done"}

\* the cursor is on a token of the list, and one call of consume_kind or of
\* expect_kind from here leaves it or moves it to the next token, which exists
CursorOnAToken ==
    /\ IsSome(token)
    /\ Unwrap(token) \in DOMAIN toks
    /\ \A kind \in ConsumedKinds :
           /\ consume_kind(token, kind) \in {token, Some(Unwrap(token) + 1)}
           /\ IsSome(consume_kind(token, kind))
           /\ expect_kind(token, kind).st = "ok" => IsSome(NextOf(token))
    /\ Kinds[Unwrap(token)] # "Eof" => consume(token) = Some(Unwrap(token) + 1)

\* a step of the parse moves the cursor forward or not at all, and over no
\* end-of-input token
CursorForward ==
    /\ IsSome(token')
    /\ Unwrap(token') >= Unwrap(token)
    /\ \A i \in Unwrap(token)..(Unwrap(token') - 1) : Kinds[i] # "Eof"

\* C11: during a parse of a token list that ends with the end-of-input token
\* the cursor is always on a token of the list; each consume, consume_kind and
\* expect_kind leaves it or advances it by one, no step moves it back, and the
\* end-of-input token is never consumed, so current_token never fails.
C11_CursorNeverAbsent ==
    /\ [](Parsing => (Terminated /\ CursorOnAToken))
    /\ [][(pc = "parsing" /\ IsSome(token)) => CursorForward]_vars

\* an unterminated comment: consume() has taken every token of the body and
\* the parse has ended with the cursor on the end-of-input token
C11_Witness ==
    /\ pc = "done"
    /\ input.form = "comment"
    /\ Len(input.val) = MaxBody
    /\ outcome.st = "err"
    /\ token = Some(Len(toks))

----------------------------------------------------------------------------
\* C12

\* C12: whenever parse returns a forest the cursor is on the end-of-input
\* token: every token of the input was consumed; a closing tag with no open
\* element at top level, as in x</a>y, does not make parse return a forest
\* with the tokens after it left unparsed.
C12_SuccessConsumesAll ==
    (pc = "done" /\ outcome.st = "ok") => Kinds[Unwrap(token)] = "Eof"

====
